---- MODULE Spec2Model ----
(***************************************************************************)
(* Task dispatch and lifecycle tracking of the research-ai-platform Django *)
(* core: the analyze and cancel views (core/views.py), the Celery tasks    *)
(* analyze_paper_task and generate_literature_review_task (core/tasks.py), *)
(* the FastAPIService client (core/services.py) and the AIAnalysisTask     *)
(* record (core/models.py).                                                *)
(*                                                                         *)
(* Every Model.save() without update_fields writes ALL columns of the      *)
(* in-memory instance, so each handler keeps the copy it read and writes   *)
(* that copy back.  Database reads and writes of different handlers        *)
(* interleave freely (no transaction, no select_for_update in the source). *)
(***************************************************************************)
EXTENDS Naturals, FiniteSets, Sequences, TLC

(* ------------------------------ bounds -------------------------------- *)
MaxTasks == 1      \* AIAnalysisTask rows that may be created
MaxOps == 3        \* requests and task invocations started in one behaviour
MaxServices == 2   \* rows of service_integrations

TaskIds == 1..MaxTasks
ServiceIds == 1..MaxServices
MissingTask == 0   \* a task_id that matches no row

(* --------------------------- program constants ------------------------ *)
max_retries == 3   \* @shared_task(bind=True, max_retries=3)

(* ------------------------------ values -------------------------------- *)
Absent == "absent"                 \* key not present in a JSON object
EmptyDoc == "{}"                   \* the empty JSON object (dict())
CoroutineRepr == "<coroutine object>"  \* str() of an un-awaited coroutine
CancelledMsg == "Cancelled by user"
Unbound == "UnboundLocalError: task"

ActiveStatus == {"queued", "processing"}
Terminal == {"completed", "failed"}

\* AIAnalysisTask row with the field defaults of the model
NewTask(type, st) ==
    [exists |-> TRUE, task_type |-> type, status |-> st, results |-> EmptyDoc,
     error_message |-> "", fastapi_task_id |-> "", agent_used |-> "",
     completed_at |-> 0]

NoTask ==
    [exists |-> FALSE, task_type |-> "", status |-> "", results |-> EmptyDoc,
     error_message |-> "", fastapi_task_id |-> "", agent_used |-> "",
     completed_at |-> 0]

\* ResearchPaper row: the computed fields and processing_status
NewPaper ==
    [keywords |-> "[]", research_areas |-> "[]", relevance_score |-> "null",
     processing_status |-> "pending"]

\* 200 response bodies of POST /api/agents/analyze-paper
BodyFull ==
    [analysis |-> "{a1}", agent_used |-> "agent1", keywords |-> "[x]",
     research_areas |-> "[r]", relevance_score |-> "0.8"]
BodyNoAnalysis ==
    [analysis |-> Absent, agent_used |-> Absent, keywords |-> "[x]",
     research_areas |-> Absent, relevance_score |-> "0.8"]
NoBody ==
    [analysis |-> Absent, agent_used |-> Absent, keywords |-> Absent,
     research_areas |-> Absent, relevance_score |-> Absent]
Bodies == {BodyFull, BodyNoAnalysis}

\* what the remote service answers to one POST
Responses ==
    {[kind |-> "http", code |-> 200, body |-> b] : b \in Bodies}
    \cup {[kind |-> "http", code |-> c, body |-> NoBody] : c \in {400, 503}}
    \cup {[kind |-> "timeout", code |-> 0, body |-> NoBody]}

\* 200 response bodies of POST /api/agents/generate-review (any document)
ReviewBodies == {"{review}"}
ReviewResponses ==
    {[kind |-> "http", code |-> 200, body |-> b] : b \in ReviewBodies}
    \cup {[kind |-> "http", code |-> c, body |-> EmptyDoc] : c \in {400, 503}}
    \cup {[kind |-> "timeout", code |-> 0, body |-> EmptyDoc]}

\* the papers of the project a review is asked for: none, or the one paper
NoPaperId == "null"
PaperId == "P"
ProjectPapers == {<<>>, <<PaperId>>}

\* how the remote service would answer a call, were one made
RemoteDisposition == {"ok", "error"}

\* dict.get(key, default) and `key in dict`
Has(body, key) == body[key] # Absent
Get(body, key, default) == IF Has(body, key) THEN body[key] ELSE default

\* str(exc) of the exceptions the handlers catch
HttpError(code) ==
    IF code = 503 THEN "FastAPI service error: 503" ELSE "FastAPI service error: 400"
TimeoutError == "timed out"
DoesNotExist == "AIAnalysisTask matching query does not exist."
PaperSaveError == "paper save failed"
JsonTypeError == "Object of type UUID is not JSON serializable"

\* transient per the glossary: timeout, connection failure, 5xx
IsTransient(resp) == resp.kind = "timeout" \/ (resp.kind = "http" /\ resp.code = 503)

VARIABLES
    tasks,      \* table ai_analysis_tasks: TaskIds -> row
    paper,      \* the ResearchPaper row the paper-analysis tasks are about
    view,       \* per task: position of the analyze request that created it
    cancel,     \* per task: the cancel request in progress and its response
    job,        \* the analyze_paper_task invocation: position, locals, call count
    lit,        \* the generate_literature_review_task run
    net,        \* network calls actually performed by the views
    ops,        \* operations started so far; also the reading of timezone.now()
    exhausted,  \* per task: str(exc) raised when an invocation ran out of retries
                \* after transient failures only ("" when none did)
    services,   \* table service_integrations: ServiceIds -> row
    sweep,      \* the health_check_services run: position, snapshot, outcomes
    hc          \* the last FastAPIService.health_check call and what it gave

healthVars == <<services, sweep, hc>>

vars == <<tasks, paper, view, cancel, job, lit, net, ops, exhausted, healthVars>>

\* seq: the reading of ops when the last cancel request on the task came in
IdleCancel ==
    [pc |-> "idle", task |-> NoTask, remote |-> "none", response |-> 0, seq |-> 0]

IdleJob ==
    [pc |-> "idle", task_id |-> MissingTask, retries |-> 0, task |-> NoTask,
     paper |-> NewPaper, result |-> NoBody, exc |-> "", calls |-> 0,
     transient_only |-> TRUE]

\* papers: the project's papers as the queryset gives them; sent_papers: the
\* 'papers' list of the request; status_code, result: the response
IdleLit ==
    [pc |-> "idle", task_id |-> MissingTask, exc |-> "", calls |-> 0,
     papers |-> <<>>, sent_papers |-> <<>>, status_code |-> 0, result |-> EmptyDoc]

\* a ServiceIntegration row as the admin registers it (field defaults);
\* last_health_check 0 stands for null
NewService(active) ==
    [is_active |-> active, is_healthy |-> TRUE, last_health_check |-> 0,
     total_requests |-> 0, failed_requests |-> 0]

NoService ==
    [is_active |-> FALSE, is_healthy |-> FALSE, last_health_check |-> 0,
     total_requests |-> 0, failed_requests |-> 0]

\* what GET {service_url}/health can give: a response or an httpx exception
HealthResponses ==
    {[kind |-> "http", code |-> c] : c \in {200, 503}}
    \cup {[kind |-> k, code |-> 0] : k \in {"timeout", "connect_error"}}

NoProbe == [kind |-> "none", code |-> 0]

\* left: primary keys the loop still has to visit; rows: the instances the
\* queryset returned; service: the instance of the current iteration
IdleSweep ==
    [pc |-> "idle", left |-> <<>>, rows |-> [s \in ServiceIds |-> NoService],
     service |-> NoService, probe |-> [s \in ServiceIds |-> NoProbe],
     started |-> 0]

NoCall == [called |-> FALSE, response |-> NoProbe, value |-> FALSE, raised |-> FALSE]

InitServices(table) ==
    /\ services = table
    /\ sweep = IdleSweep
    /\ hc = NoCall

InitTasks ==
    /\ tasks = [t \in TaskIds |-> NoTask]
    /\ paper = NewPaper
    /\ view = [t \in TaskIds |-> "none"]
    /\ cancel = [t \in TaskIds |-> IdleCancel]
    /\ job = IdleJob
    /\ lit = IdleLit
    /\ net = [submit |-> 0, cancel |-> 0]
    /\ ops = 0
    /\ exhausted = [t \in TaskIds |-> ""]

\* every registered service active
Init == InitTasks /\ InitServices([s \in ServiceIds |-> NewService(TRUE)])

\* any mix of active and inactive services
InitHealth ==
    /\ InitTasks
    /\ \E table \in [ServiceIds -> {NewService(a) : a \in BOOLEAN}] :
           InitServices(table)

Exists(t) == t \in TaskIds /\ tasks[t].exists

\* primary keys are fresh: the lowest id not yet used
FreshId(t) == t \in TaskIds /\ ~tasks[t].exists /\ \A u \in 1..(t - 1) : tasks[u].exists


(* ------------------- FastAPIService (core/services.py) ---------------- *)
\* analyze_paper and cancel_task are `async def`; both views call them
\* without await, which builds a coroutine object and runs none of the body:
\* no request is sent and nothing is raised, whatever the remote would answer.
analyze_paper(remote) ==
    [called |-> FALSE, raised |-> FALSE, value |-> CoroutineRepr]

\* faulty variant: the call awaited, so the request is sent and a failure
\* of the remote service is raised into the view's except branch
cancel_task_awaited(fastapi_task_id, remote) ==
    [called |-> TRUE, raised |-> remote = "error"]

cancel_task(fastapi_task_id, remote) ==
    [called |-> FALSE, raised |-> FALSE]

(* ------------- ResearchPaperViewSet.analyze (core/views.py) ----------- *)
\* lines 68-77: the row is created with the model's default status
AnalyzeCreate(t) ==
    /\ ops < MaxOps
    /\ ops' = ops + 1
    /\ FreshId(t)
    /\ tasks' = [tasks EXCEPT ![t] = NewTask("paper_analysis", "queued")]
    /\ view' = [view EXCEPT ![t] = "created"]
    /\ UNCHANGED <<paper, cancel, job, lit, net, exhausted, healthVars>>

\* lines 79-102: the instance returned by create() is modified and saved whole
AnalyzeSend(t) ==
    /\ view[t] = "created"
    /\ \E remote \in RemoteDisposition :
         LET r == analyze_paper(remote)
             local == NewTask("paper_analysis", "queued")
         IN  /\ net' = [net EXCEPT !.submit = @ + (IF r.called THEN 1 ELSE 0)]
             /\ IF r.raised
                  THEN /\ tasks' = [tasks EXCEPT ![t] =
                                      [local EXCEPT !.status = "failed",
                                                    !.error_message = HttpError(503)]]
                       /\ view' = [view EXCEPT ![t] = "error"]
                  ELSE /\ tasks' = [tasks EXCEPT ![t] =
                                      [local EXCEPT !.fastapi_task_id = r.value,
                                                    !.status = "processing"]]
                       /\ view' = [view EXCEPT ![t] = "started"]
    /\ UNCHANGED <<paper, cancel, job, lit, ops, exhausted, healthVars>>

(* ------------- AIAnalysisTaskViewSet.cancel (core/views.py) ----------- *)
\* lines 120-122 and 138-141: get_object() reads the row (only rows with
\* requested_by = the user, which the literature-review rows never have),
\* then the status of that copy decides
\* faulty variant: the guard lets a failed task through
cancellable_not_completed(status) == status # "completed"

\* line 122: task.status in ['queued', 'processing']
cancellable(status) == status \in ActiveStatus

CancelRequest(t) ==
    /\ ops < MaxOps
    /\ ops' = ops + 1
    /\ cancel[t].pc = "idle"
    /\ Exists(t)
    /\ tasks[t].task_type = "paper_analysis"
    /\ IF cancellable(tasks[t].status)
         THEN cancel' = [cancel EXCEPT ![t] =
                           [pc |-> "accepted", task |-> tasks[t],
                            remote |-> "none", response |-> 0, seq |-> ops + 1]]
         ELSE cancel' = [cancel EXCEPT ![t] =
                           [IdleCancel EXCEPT !.response = 400, !.seq = ops + 1]]
    /\ UNCHANGED <<tasks, paper, view, job, lit, net, exhausted, healthVars>>

\* lines 123-137: the copy read by get_object() is saved whole
CancelApply(t) ==
    /\ cancel[t].pc = "accepted"
    /\ \E remote \in RemoteDisposition :
         LET local == cancel[t].task
             r == cancel_task(local.fastapi_task_id, remote)
         IN  /\ net' = [net EXCEPT !.cancel = @ + (IF r.called THEN 1 ELSE 0)]
             /\ IF r.raised
                  THEN /\ tasks' = tasks
                       /\ cancel' = [cancel EXCEPT ![t] =
                                       [IdleCancel EXCEPT !.remote = remote,
                                                          !.response = 500,
                                                          !.seq = cancel[t].seq]]
                  ELSE /\ tasks' = [tasks EXCEPT ![t] =
                                      [local EXCEPT !.status = "failed",
                                                    !.error_message = CancelledMsg]]
                       /\ cancel' = [cancel EXCEPT ![t] =
                                       [IdleCancel EXCEPT !.remote = remote,
                                                          !.response = 200,
                                                          !.seq = cancel[t].seq]]
    /\ UNCHANGED <<paper, view, job, lit, ops, exhausted, healthVars>>


(* ----------------- analyze_paper_task (core/tasks.py) ----------------- *)
\* faulty variant: the first attempt counted against max_retries
should_retry_counting_first(retries) == retries + 1 < max_retries

\* line 79: self.request.retries < self.max_retries
should_retry(retries) == retries < max_retries

\* line 46: result.get('analysis', {})
results_of(result) == Get(result, "analysis", EmptyDoc)

\* line 48: result.get('agent_used', 'unknown')
agent_of(result) == Get(result, "agent_used", "unknown")

\* faulty variant: a field the response does not declare falls back to the
\* model default
project_onto_resetting(p, result) ==
    [keywords |-> Get(result, "keywords", NewPaper.keywords),
     research_areas |-> Get(result, "research_areas", NewPaper.research_areas),
     relevance_score |-> Get(result, "relevance_score", NewPaper.relevance_score),
     processing_status |-> "completed"]

\* lines 52-58: the declared fields are copied onto the paper instance
project_onto(p, result) ==
    [keywords |-> Get(result, "keywords", p.keywords),
     research_areas |-> Get(result, "research_areas", p.research_areas),
     relevance_score |-> Get(result, "relevance_score", p.relevance_score),
     processing_status |-> "completed"]

\* analyze_paper_task.delay(task_id, paper_id): any caller, any task id of a
\* paper-analysis row or an id that matches no row.  One invocation (with its
\* retries) is followed at a time.
JobStart(t) ==
    /\ ops < MaxOps
    /\ ops' = ops + 1
    /\ job.pc \in {"idle", "done", "raised"}
    /\ t = MissingTask \/ (Exists(t) /\ tasks[t].task_type = "paper_analysis")
    /\ job' = [IdleJob EXCEPT !.pc = "start", !.task_id = t]
    /\ UNCHANGED <<tasks, paper, view, cancel, lit, net, exhausted, healthVars>>

\* lines 22-40 of one attempt: both rows are read, then the request is sent;
\* no field of the task is looked at before the request
JobSubmit ==
    /\ job.pc = "start"
    /\ IF Exists(job.task_id)
         THEN job' = [job EXCEPT !.pc = "inflight",
                                 !.task = tasks[job.task_id],
                                 !.paper = paper,
                                 !.calls = @ + 1]
         ELSE job' = [job EXCEPT !.pc = "handler", !.exc = DoesNotExist,
                                 !.transient_only = FALSE]
    /\ UNCHANGED <<tasks, paper, view, cancel, lit, net, ops, exhausted, healthVars>>

\* lines 42-49 and 63-64: the response arrives; on 200 the copy read at line 22
\* gets results, status and agent_used and is saved whole.  Locals that are
\* dead from here on are reset to their initial values.
JobResponse(resp) ==
    /\ job.pc = "inflight"
    /\ IF resp.kind = "http" /\ resp.code = 200
         THEN LET local == [job.task EXCEPT
                               !.results = results_of(resp.body),
                               !.status = "completed",
                               !.agent_used = agent_of(resp.body)]
              IN  /\ tasks' = [tasks EXCEPT ![job.task_id] = local]
                  /\ job' = [job EXCEPT !.pc = "project", !.task = NoTask,
                                        !.result = resp.body,
                                        !.transient_only = FALSE]
         ELSE /\ tasks' = tasks
              /\ job' = [job EXCEPT !.pc = "handler",
                                    !.task = NoTask, !.paper = NewPaper,
                                    !.exc = IF resp.kind = "timeout"
                                              THEN TimeoutError
                                              ELSE HttpError(resp.code),
                                    !.transient_only = @ /\ IsTransient(resp)]
    /\ UNCHANGED <<paper, view, cancel, lit, net, ops, exhausted, healthVars>>

\* lines 51-62: the paper copy read at line 23 is updated and saved whole;
\* paper.save() may raise, inside the same try block
JobProject(saved) ==
    /\ job.pc = "project"
    /\ IF saved
         THEN /\ paper' = project_onto(job.paper, job.result)
              /\ job' = [job EXCEPT !.pc = "done", !.paper = NewPaper,
                                    !.result = NoBody]
         ELSE /\ paper' = paper
              /\ job' = [job EXCEPT !.pc = "handler", !.paper = NewPaper,
                                    !.result = NoBody, !.exc = PaperSaveError]
    /\ UNCHANGED <<tasks, view, cancel, lit, net, ops, exhausted, healthVars>>

\* lines 66-84: the row is read again and saved as failed, whatever it holds;
\* then the attempt is re-queued (self.retry) or the exception is raised
JobHandler ==
    /\ job.pc = "handler"
    /\ IF Exists(job.task_id)
         THEN tasks' = [tasks EXCEPT ![job.task_id] =
                          [@ EXCEPT !.status = "failed",
                                    !.error_message = job.exc]]
         ELSE tasks' = tasks
    /\ IF should_retry(job.retries)
         THEN /\ job' = [job EXCEPT !.pc = "start", !.retries = @ + 1]
              /\ exhausted' = exhausted
         ELSE /\ job' = [job EXCEPT !.pc = "raised"]
              /\ exhausted' = IF job.transient_only
                                THEN [exhausted EXCEPT ![job.task_id] = job.exc]
                                ELSE exhausted
    /\ UNCHANGED <<paper, view, cancel, lit, net, ops, healthVars>>

(* ----------- generate_literature_review_task (core/tasks.py) ---------- *)
\* faulty variant: the review task stored as queued
review_status_queued == "queued"

\* line 102: status the review task is created with
review_status == "processing"

\* lines 92-103: project lookup, row created as processing.
\* When the lookup or the create raises, the handler (lines 130-135) reads the
\* local `task`, which is unbound: the handler itself raises.
LitStart(failure) ==
    /\ ops < MaxOps
    /\ ops' = ops + 1
    /\ lit.pc = "idle"
    /\ IF failure = "none"
         THEN \E t \in TaskIds, ps \in ProjectPapers :
                /\ FreshId(t)
                /\ tasks' = [tasks EXCEPT ![t] =
                               NewTask("literature_review", review_status)]
                /\ lit' = [IdleLit EXCEPT !.pc = "created", !.task_id = t,
                                          !.papers = ps]
         ELSE /\ tasks' = tasks
              /\ lit' = [IdleLit EXCEPT !.pc = "raised", !.exc = Unbound]
    /\ UNCHANGED <<paper, view, cancel, job, net, exhausted, healthVars>>

\* faulty variant: a project without papers sends one null entry
review_papers_padded(papers) == IF papers = <<>> THEN <<NoPaperId>> ELSE papers

\* lines 112-114: list(project.papers.values('id', 'title', ...)), one entry
\* per paper, each holding the paper's UUID primary key
review_papers(papers) == papers

\* json= of the request is encoded with json.dumps: a UUID value in it raises
\* TypeError, so only a list without entries can be encoded
json_encodable(papers) == papers = <<>>

\* lines 105-117: the request is built and sent; an exception raised while
\* encoding it goes to the handler (lines 130-135), which saves the instance
\* returned by create() as failed and raises
LitSend ==
    /\ lit.pc = "created"
    /\ LET payload == review_papers(lit.papers)
           local == NewTask("literature_review", review_status)
       IN  IF json_encodable(payload)
             THEN /\ lit' = [lit EXCEPT !.pc = "inflight", !.calls = @ + 1,
                                        !.sent_papers = payload]
                  /\ tasks' = tasks
             ELSE /\ lit' = [lit EXCEPT !.pc = "raised", !.exc = JsonTypeError]
                  /\ tasks' = [tasks EXCEPT ![lit.task_id] =
                                 [local EXCEPT !.status = "failed",
                                               !.error_message = JsonTypeError]]
    /\ UNCHANGED <<paper, view, cancel, job, net, ops, exhausted, healthVars>>

\* lines 119-135: the instance returned by create() is saved whole
LitResponse(resp) ==
    /\ lit.pc = "inflight"
    /\ LET local == NewTask("literature_review", review_status)
           exc == IF resp.kind = "timeout" THEN TimeoutError ELSE HttpError(resp.code)
       IN  IF resp.kind = "http" /\ resp.code = 200
             THEN /\ tasks' = [tasks EXCEPT ![lit.task_id] =
                                 [local EXCEPT !.results = resp.body,
                                               !.status = "completed"]]
                  /\ lit' = [lit EXCEPT !.pc = "done", !.status_code = resp.code,
                                        !.result = resp.body]
             ELSE /\ tasks' = [tasks EXCEPT ![lit.task_id] =
                                 [local EXCEPT !.status = "failed",
                                               !.error_message = exc]]
                  /\ lit' = [lit EXCEPT !.pc = "raised", !.exc = exc,
                                        !.status_code = resp.code]
    /\ UNCHANGED <<paper, view, cancel, job, net, ops, exhausted, healthVars>>

(* ------------- AIAnalysisTask.mark_completed (core/models.py) --------- *)
\* lines 173-177: two columns are written, whatever the current status
MarkCompleted(t) ==
    /\ Exists(t)
    /\ ops < MaxOps
    /\ ops' = ops + 1
    /\ tasks' = [tasks EXCEPT ![t] =
                   [@ EXCEPT !.status = "completed", !.completed_at = ops + 1]]
    /\ UNCHANGED <<paper, view, cancel, job, lit, net, exhausted, healthVars>>

(* --------------------------- specifications --------------------------- *)
\* the operations the source wires up: the two views and the Celery tasks
Next ==
    \/ \E t \in TaskIds : AnalyzeCreate(t)
    \/ \E t \in TaskIds : AnalyzeSend(t)
    \/ \E t \in TaskIds : CancelRequest(t)
    \/ \E t \in TaskIds : CancelApply(t)
    \/ \E t \in TaskIds \cup {MissingTask} : JobStart(t)
    \/ JobSubmit
    \/ \E resp \in Responses : JobResponse(resp)
    \/ \E saved \in BOOLEAN : JobProject(saved)
    \/ JobHandler
    \/ \E failure \in {"none", "project_missing", "create_failed"} : LitStart(failure)
    \/ LitSend
    \/ \E resp \in ReviewResponses : LitResponse(resp)

Spec == Init /\ [][Next]_vars

\* scheduling: a request being handled runs to its response, a started
\* Celery task runs on (its retries included), and the remote service answers
\* every call made to it.  Requests coming in and task invocations being
\* queued are not forced: nothing in the repository queues either task.
Fairness ==
    /\ \A t \in TaskIds : WF_vars(AnalyzeSend(t)) /\ WF_vars(CancelApply(t))
    /\ WF_vars(JobSubmit)
    /\ WF_vars(\E resp \in Responses : JobResponse(resp))
    /\ WF_vars(\E saved \in BOOLEAN : JobProject(saved))
    /\ WF_vars(JobHandler)
    /\ WF_vars(LitSend)
    /\ WF_vars(\E resp \in ReviewResponses : LitResponse(resp))

SpecFair == Spec /\ Fairness

(* ---------------------------- health checks --------------------------- *)
taskVars == <<tasks, paper, view, cancel, job, lit, net, exhausted>>

\* the primary keys in S, ascending (the order the queryset yields them)
RECURSIVE Ascending(_)
Ascending(S) ==
    IF S = {} THEN <<>>
    ELSE LET m == CHOOSE x \in S : \A y \in S : x <= y
         IN <<m>> \o Ascending(S \ {m})

\* faulty variant: the filter left out
all_services(table) == ServiceIds

\* line 146: ServiceIntegration.objects.filter(is_active=True)
active_services(table) == {s \in ServiceIds : table[s].is_active}

\* faulty variant: any response at all counts as healthy
probe_any_response(resp) == resp.kind = "http"

\* tasks.py lines 149-164: is_healthy as the loop body sets it
probe(resp) ==
    IF resp.kind = "http" THEN resp.code = 200 ELSE FALSE

\* faulty variant: without the except branch
health_check_unguarded(resp) ==
    [value |-> resp.kind = "http" /\ resp.code = 200, raised |-> resp.kind # "http"]

\* services.py lines 53-63
health_check(resp) ==
    IF resp.kind = "http"
      THEN [value |-> resp.code = 200, raised |-> FALSE]
      ELSE [value |-> FALSE, raised |-> FALSE]

\* line 146 and the start of the loop: the active rows are fetched
SweepStart ==
    /\ sweep.pc \in {"idle", "done", "raised"}
    /\ ops < MaxOps
    /\ ops' = ops + 1
    /\ sweep' = [pc |-> "loop",
                 left |-> Ascending(active_services(services)),
                 rows |-> services,
                 service |-> NoService,
                 probe |-> [s \in ServiceIds |-> NoProbe],
                 started |-> ops + 1]
    /\ UNCHANGED <<taskVars, services, hc>>

\* lines 148-165: the probe of the next service; both branches set the two
\* fields on the instance
SweepProbe(resp) ==
    /\ sweep.pc = "loop"
    /\ sweep.left # <<>>
    /\ LET s == Head(sweep.left)
       IN sweep' = [sweep EXCEPT
                       !.pc = "save",
                       !.probe[s] = resp,
                       !.service = [sweep.rows[s] EXCEPT
                                       !.is_healthy = probe(resp),
                                       !.last_health_check = ops]]
    /\ UNCHANGED <<taskVars, services, hc, ops>>

\* line 167, outside the try: the instance is saved whole, or save() raises
\* and the exception leaves the loop and the task
SweepSave(saved) ==
    /\ sweep.pc = "save"
    /\ IF saved
         THEN /\ services' = [services EXCEPT ![Head(sweep.left)] = sweep.service]
              /\ sweep' = [sweep EXCEPT !.pc = "loop", !.left = Tail(@),
                                        !.service = NoService]
         ELSE /\ services' = services
              /\ sweep' = [sweep EXCEPT !.pc = "raised", !.service = NoService]
    /\ UNCHANGED <<taskVars, hc, ops>>

\* line 169: the loop is over
SweepEnd ==
    /\ sweep.pc = "loop"
    /\ sweep.left = <<>>
    /\ sweep' = [sweep EXCEPT !.pc = "done"]
    /\ UNCHANGED <<taskVars, services, hc, ops>>

\* one awaited call of FastAPIService.health_check
HealthCheckCall(resp) ==
    /\ ops < MaxOps
    /\ ops' = ops + 1
    /\ LET r == health_check(resp)
       IN hc' = [called |-> TRUE, response |-> resp,
                 value |-> r.value, raised |-> r.raised]
    /\ UNCHANGED <<taskVars, services, sweep>>

NextHealth ==
    \/ SweepStart
    \/ \E resp \in HealthResponses : SweepProbe(resp)
    \/ \E saved \in BOOLEAN : SweepSave(saved)
    \/ SweepEnd
    \/ \E resp \in HealthResponses : HealthCheckCall(resp)

SpecHealth == InitHealth /\ [][NextHealth]_vars

\* the task operations and the health checks side by side
NextAll == Next \/ NextHealth

SpecAll == InitHealth /\ [][NextAll]_vars

\* the same, with mark_completed called on any row
NextMark == Next \/ \E t \in TaskIds : MarkCompleted(t)

SpecMark == Init /\ [][NextMark]_vars


(* ------------------------------- claims ------------------------------- *)
JobTask == job.task_id

\* C1: once a task's status is completed or failed, no later step of
\* analyze_paper_task (attempt, retry, reconcile) or of cancel changes that
\* status.
C1_TerminalStatusKept ==
    [][\A t \in TaskIds :
          (tasks[t].exists /\ tasks[t].status \in Terminal /\ view' = view)
              => tasks'[t].status = tasks[t].status]_vars

\* C2: when a cancel has marked the task failed after an attempt read it
\* (the attempt is in flight, its copy of the task still queued or
\* processing), the response that arrives later is not applied: the task
\* stays failed with the cancellation reason.
C2_StaleResultSuppressed ==
    [][(/\ job.pc = "inflight"
        /\ job'.pc # "inflight"
        /\ job.task.status \in ActiveStatus
        /\ tasks[JobTask].status = "failed"
        /\ tasks[JobTask].error_message = CancelledMsg)
          => (/\ tasks'[JobTask].status = "failed"
              /\ tasks'[JobTask].error_message = CancelledMsg)]_vars

\* C3 (as claimed): when every attempt fails with a transient error, the
\* invocation ends with the task failed and exactly 3 requests sent.
C3_ThreeCallsInTotal ==
    [][(job.pc = "handler" /\ job'.pc = "raised" /\ job.transient_only)
          => (job'.calls = 3 /\ tasks'[JobTask].status = "failed")]_vars

\* C3 (amended): when every attempt fails with a transient error, the
\* invocation ends with the task failed and exactly 4 requests sent: the
\* first attempt and max_retries = 3 retries.
C3_FourCallsInTotal ==
    [][(job.pc = "handler" /\ job'.pc = "raised" /\ job.transient_only)
          => (job'.calls = 4 /\ tasks'[JobTask].status = "failed")]_vars

C3_Witness ==
    /\ job.pc = "raised"
    /\ job.transient_only
    /\ job.calls = 4
    /\ tasks[JobTask].status = "failed"
    /\ tasks[JobTask].error_message = HttpError(503)

\* C4: after a rejection (4xx) on the first attempt the task is failed at
\* once and no second request is sent for that invocation.
C4_NoRetryOnRejection ==
    [][/\ (job.pc = "handler" /\ job'.pc # "handler" /\ job.retries = 0
           /\ job.exc = HttpError(400) /\ JobTask \in TaskIds)
             => tasks'[JobTask].status = "failed"
       /\ (job.pc = "start" /\ job'.pc # "start" /\ job.retries = 1
           /\ job.exc = HttpError(400))
             => job'.calls = job.calls]_vars

\* C5: when the task has been saved as completed and the write of the
\* projected fields to the paper fails, the task stays completed with its
\* results and the attempt is not retried.
C5_ProjectionFailureKeepsCompleted ==
    [][(/\ job.pc = "handler"
        /\ job'.pc # "handler"
        /\ job.exc = PaperSaveError
        /\ tasks[JobTask].status = "completed")
          => (/\ tasks'[JobTask].status = "completed"
              /\ tasks'[JobTask].results = tasks[JobTask].results
              /\ job'.pc # "start")]_vars

C8_CancelTerminalRejected ==
    [][\A t \in TaskIds :
          (cancel'[t].seq # cancel[t].seq /\ tasks[t].status \in Terminal)
              => (/\ cancel'[t].response = 400
                  /\ cancel'[t].pc = "idle"
                  /\ tasks' = tasks
                  /\ net' = net)]_vars

C8_Witness ==
    \E t \in TaskIds :
        /\ cancel[t].response = 400
        /\ cancel[t].pc = "idle"
        /\ tasks[t].status = "completed"
        /\ tasks[t].results # EmptyDoc

\* C9: analyze_paper_task invoked for a task that is already processing,
\* completed or failed sends no request and leaves the task unchanged.
C9_SubmitIdempotent ==
    [][(/\ job.pc = "start"
        /\ job'.pc # "start"
        /\ job.retries = 0
        /\ JobTask \in TaskIds
        /\ tasks[JobTask].status \in {"processing", "completed", "failed"})
          => (job'.calls = job.calls /\ tasks' = tasks)]_vars

\* C10: for every task, results is non-empty exactly when status is
\* completed.
C10_ResultsIffCompleted ==
    \A t \in TaskIds :
        tasks[t].exists =>
            ((tasks[t].results # EmptyDoc) <=> (tasks[t].status = "completed"))

\* C11: in every state, for every task, error_message is non-empty exactly
\* when status is failed.
C11_ErrorIffFailed ==
    \A t \in TaskIds :
        tasks[t].exists =>
            ((tasks[t].error_message # "") <=> (tasks[t].status = "failed"))

\* C12: once an invocation has used up its retries on transient failures,
\* the task is failed with the detail of the last failed attempt, and stays
\* so in every later state.
C12_ExhaustedStateKept ==
    \A t \in TaskIds :
        exhausted[t] # "" =>
            (tasks[t].status = "failed" /\ tasks[t].error_message = exhausted[t])

\* C13: when a run of health_check_services ends by an error raised while
\* handling one service, every other active service has been probed and has
\* its is_healthy and last_health_check written by that run.
C13_SweepIsolation ==
    sweep.pc = "raised" =>
        \A s \in ServiceIds :
            (sweep.rows[s].is_active /\ s # Head(sweep.left)) =>
                (/\ sweep.probe[s] # NoProbe
                 /\ services[s].last_health_check >= sweep.started)

\* C14: when a run of health_check_services has gone through its loop,
\* every active service has is_healthy true exactly when its GET /health
\* returned 200 (false on a timeout, a connection error or another status)
\* and a last_health_check taken during that run.
C14_SweepRecordsProbe ==
    sweep.pc = "done" =>
        \A s \in ServiceIds :
            services[s].is_active =>
                (/\ services[s].is_healthy
                       = (sweep.probe[s].kind = "http" /\ sweep.probe[s].code = 200)
                 /\ services[s].last_health_check >= sweep.started)

C14_Witness ==
    /\ sweep.pc = "done"
    /\ \E s \in ServiceIds :
          /\ services[s].is_active
          /\ sweep.probe[s].kind = "timeout"
          /\ ~services[s].is_healthy
          /\ services[s].last_health_check >= sweep.started
    /\ \E s \in ServiceIds :
          /\ services[s].is_active
          /\ sweep.probe[s].code = 200
          /\ services[s].is_healthy

\* C15: FastAPIService.health_check gives a boolean for every outcome of
\* the GET: true only for a 200 response, false for a timeout, a connection
\* error or another status; it never raises.
C15_HealthCheckTotal ==
    hc.called =>
        (/\ ~hc.raised
         /\ hc.value = (hc.response.kind = "http" /\ hc.response.code = 200))

C15_Witness ==
    /\ hc.called
    /\ hc.response.kind \in {"timeout", "connect_error"}
    /\ ~hc.value
    /\ ~hc.raised

\* C16 as stated: every task, whatever its type, is first stored with
\* status queued.
C16_CreatedQueued ==
    [][\A t \in TaskIds :
          (~tasks[t].exists /\ tasks'[t].exists) => tasks'[t].status = "queued"]_vars

\* C16: a paper-analysis task is first stored with status queued and a
\* literature-review task with status processing; either is stored before
\* any request about it is sent to the remote service.
C16_CreatedBeforeAnyCall ==
    [][\A t \in TaskIds :
          (~tasks[t].exists /\ tasks'[t].exists) =>
              (/\ tasks'[t].status =
                     IF tasks'[t].task_type = "literature_review"
                       THEN "processing" ELSE "queued"
               /\ tasks'[t].fastapi_task_id = ""
               /\ net' = net
               /\ ~(job'.task_id = t /\ job'.calls > 0)
               /\ (lit'.task_id = t => lit'.calls = 0))]_vars

C16_Witness ==
    /\ lit.pc = "created"
    /\ lit.calls = 0
    /\ tasks[lit.task_id].task_type = "literature_review"
    /\ tasks[lit.task_id].status = "processing"

\* C17: a task goes from queued to processing only in a step in which the
\* submit call was actually made to the remote service.
C17_ProcessingOnlyAfterAccepted ==
    [][\A t \in TaskIds :
          (/\ tasks[t].exists
           /\ tasks[t].status = "queued"
           /\ tasks'[t].status = "processing")
              => net'.submit > net.submit]_vars

\* C18: analyze_paper_task and generate_literature_review_task never end by
\* raising an exception to their caller.
C18_NeverRaises == job.pc # "raised" /\ lit.pc # "raised"

\* C19: in every state, a task whose status is completed or failed has a
\* completed_at.
C19_CompletedAtSet ==
    \A t \in TaskIds :
        (tasks[t].exists /\ tasks[t].status \in Terminal) => tasks[t].completed_at # 0

\* C20: once fastapi_task_id is non-empty, no step overwrites or clears it.
C20_RemoteIdWriteOnce ==
    [][\A t \in TaskIds :
          (tasks[t].exists /\ tasks[t].fastapi_task_id # "")
              => tasks'[t].fastapi_task_id = tasks[t].fastapi_task_id]_vars

\* the paper fields lines 52-57 may write
PaperFields == {"keywords", "research_areas", "relevance_score"}

\* C21: when a 200 response arrives, the task is saved completed with the
\* analysis of the response as results; when the paper is then saved, each
\* of keywords, research_areas and relevance_score is the response's value
\* if the response declares the field and the paper's previous value if not.
C21_ReconcileProjects ==
    [][/\ (job.pc = "inflight" /\ job'.pc = "project") =>
            (/\ tasks'[JobTask].status = "completed"
             /\ tasks'[JobTask].results =
                   IF job'.result.analysis # Absent
                     THEN job'.result.analysis ELSE EmptyDoc)
       /\ (job.pc = "project" /\ job'.pc = "done") =>
            \A f \in PaperFields :
                paper'[f] = IF job.result[f] # Absent THEN job.result[f]
                                                     ELSE paper[f]]_vars

C21_Witness ==
    /\ job.pc = "done"
    /\ tasks[JobTask].status = "completed"
    /\ tasks[JobTask].results = EmptyDoc
    /\ paper.keywords = "[x]"
    /\ paper.research_areas = "[r]"
    /\ paper.processing_status = "completed"

\* C22: generate_literature_review_task for a project without papers sends
\* a request whose papers list is empty, and a 200 response to it leaves the
\* task completed with the response as results.
C22_EmptyReviewCompletes ==
    [][/\ (lit.pc = "created" /\ lit.papers = <<>> /\ lit' # lit) =>
            (/\ lit'.pc = "inflight"
             /\ lit'.calls = lit.calls + 1
             /\ lit'.sent_papers = <<>>)
       /\ (/\ lit.pc = "inflight"
           /\ lit.sent_papers = <<>>
           /\ lit'.pc # "inflight"
           /\ lit'.status_code = 200) =>
            (/\ tasks'[lit.task_id].status = "completed"
             /\ tasks'[lit.task_id].results = lit'.result
             /\ lit'.result \in ReviewBodies)]_vars

C22_Witness ==
    /\ lit.pc = "done"
    /\ lit.papers = <<>>
    /\ lit.calls = 1
    /\ lit.sent_papers = <<>>
    /\ tasks[lit.task_id].status = "completed"
    /\ tasks[lit.task_id].results = "{review}"

\* C23: a task's status only moves queued -> processing, processing ->
\* completed, queued -> failed or processing -> failed; no step writes
\* completed to a task whose status is queued.
C23_StatusPath ==
    [][\A t \in TaskIds :
          (tasks[t].exists /\ tasks'[t].status # tasks[t].status) =>
              <<tasks[t].status, tasks'[t].status>> \in
                  {<<"queued", "processing">>, <<"processing", "completed">>,
                   <<"queued", "failed">>, <<"processing", "failed">>}]_vars

\* C24: the save of a cancel request writes only the fields the cancel
\* changes: results, fastapi_task_id and agent_used stay as the last
\* operation that set them left them; and no operation on one task changes
\* another task.
C24_CancelWritesOwnFields ==
    [][\A t \in TaskIds :
          /\ (cancel[t].pc = "accepted" /\ cancel'[t].pc # "accepted") =>
                (/\ tasks'[t].results = tasks[t].results
                 /\ tasks'[t].fastapi_task_id = tasks[t].fastapi_task_id
                 /\ tasks'[t].agent_used = tasks[t].agent_used)
          /\ (tasks'[t] # tasks[t]) =>
                (\A u \in TaskIds \ {t} : tasks'[u] = tasks[u])]_vars

\* C26: when generate_literature_review_task ends by an exception, the
\* exception is the original error and not a fault of the handler on a task
\* that was never created; a task that was created is left failed with the
\* error detail.
C26_ReviewHandlerSafe ==
    lit.pc = "raised" =>
        (/\ lit.exc # Unbound
         /\ lit.task_id \in TaskIds =>
               (/\ tasks[lit.task_id].status = "failed"
                /\ tasks[lit.task_id].error_message = lit.exc))

\* C25: under fair scheduling and a remote service that answers every call,
\* every task created by the analyze request eventually is completed or
\* failed.
C25_Progress ==
    \A t \in TaskIds :
        (tasks[t].exists /\ tasks[t].task_type = "paper_analysis")
            ~> (tasks[t].status \in Terminal)

\* C27: a run of health_check_services changes nothing but is_healthy and
\* last_health_check of active services: inactive services, is_active and
\* the two counters of every service, and every task stay as they are; and
\* no step of a task operation changes a service.
C27_SweepFrame ==
    [][/\ \A s \in ServiceIds :
            /\ services'[s].is_active = services[s].is_active
            /\ services'[s].total_requests = services[s].total_requests
            /\ services'[s].failed_requests = services[s].failed_requests
            /\ ~services[s].is_active => services'[s] = services[s]
       /\ sweep' # sweep => (tasks' = tasks /\ paper' = paper)
       /\ taskVars' # taskVars => services' = services]_vars

C27_Witness ==
    /\ sweep.pc = "done"
    /\ \E s \in ServiceIds :
          ~services[s].is_active /\ services[s] = NewService(FALSE)
    /\ \E s \in ServiceIds :
          services[s].is_active /\ services[s].last_health_check >= sweep.started
    /\ \E t \in TaskIds : tasks[t].exists

====
